---- MODULE Spec2Model ----
(***************************************************************************)
(* Model of the rustserve routing core: the request view, the match        *)
(* context, the primitive filters, the combinators and the handler         *)
(* adapter (src/src/http/filter.rs, src/src/http/request.rs).              *)
(*                                                                         *)
(* A string is a sequence of one-character strings; "/" is the separator.  *)
(***************************************************************************)
EXTENDS Integers, Sequences, FiniteSets, TLC

VARIABLES filter, request, pc, result, response, input, written,
          router, conns, queue, workers, lock, listener

serverVars == <<router, conns, queue, workers, lock, listener>>
vars == <<filter, request, pc, result, response, input, written, serverVars>>

(***************************************************************************)
(* Bounds of the explored inputs.                                          *)
(***************************************************************************)
MaxLitLen == 3      \* longest Path literal drawn, in characters
MaxPathLen == 3     \* longest raw request path drawn, in characters
MaxFields == 1      \* most header lines of a request read from a socket
MaxBodyLen == 2     \* longest response body drawn, in bytes

PathChars == {"a", "/"}
HeaderNames == {<<"k">>, <<"K">>}
HeaderValues == {<<"v">>, <<"w">>}
MethodsUsed == {"Get", "Post"}

RECURSIVE StringsUpTo(_, _)
StringsUpTo(chars, n) ==
    IF n = 0 THEN {<<>>}
    ELSE LET shorter == StringsUpTo(chars, n - 1)
         IN  shorter \cup {Append(s, c) : s \in shorter, c \in chars}

(***************************************************************************)
(* String helpers of the Rust standard library used by the code.           *)
(***************************************************************************)
\* str::split('/'): the pieces between separators, empty pieces included;
\* the empty string yields one empty piece.
RECURSIVE SplitFrom(_, _, _)
SplitFrom(s, i, cur) ==
    IF i > Len(s) THEN <<cur>>
    ELSE IF s[i] = "/" THEN <<cur>> \o SplitFrom(s, i + 1, <<>>)
    ELSE SplitFrom(s, i + 1, Append(cur, s[i]))

Split(s) == SplitFrom(s, 1, <<>>)

\* str::trim_matches('/')
RECURSIVE TrimStart(_)
TrimStart(s) == IF s # <<>> /\ Head(s) = "/" THEN TrimStart(Tail(s)) ELSE s

RECURSIVE TrimEnd(_)
TrimEnd(s) ==
    IF s # <<>> /\ s[Len(s)] = "/" THEN TrimEnd(SubSeq(s, 1, Len(s) - 1)) ELSE s

TrimMatches(s) == TrimEnd(TrimStart(s))

\* Iterator::filter(|s| !s.is_empty())
RECURSIVE NonEmpty(_)
NonEmpty(pieces) ==
    IF pieces = <<>> THEN <<>>
    ELSE IF Head(pieces) = <<>> THEN NonEmpty(Tail(pieces))
    ELSE <<Head(pieces)>> \o NonEmpty(Tail(pieces))

\* str::to_lowercase on the characters the model draws
\* ("Content-Length" stands for the characters of that header name)
LowerChar(c) ==
    IF c = "K" THEN "k"
    ELSE IF c = "Content-Length" THEN "content-length" ELSE c
ToLowercase(s) == [i \in 1..Len(s) |-> LowerChar(s[i])]

(***************************************************************************)
(* Request view (request.rs).                                              *)
(***************************************************************************)
\* The header maps Request::new can build from `headers`: every key is
\* lowercased; when two keys collide the map keeps either value (HashMap
\* iteration order is unspecified).
LoweredHeaders(headers) ==
    LET keys == {ToLowercase(k) : k \in DOMAIN headers}
    IN  {h \in [keys -> {headers[k] : k \in DOMAIN headers}] :
            \A k2 \in keys : \E k \in DOMAIN headers :
                ToLowercase(k) = k2 /\ headers[k] = h[k2]}

\* Request::new: the set of request views it can return.
RequestNew(method, path, headers) ==
    {[method |-> method,
      path_segments |-> NonEmpty(Split(TrimMatches(path))),
      headers |-> h] : h \in LoweredHeaders(headers)}

\* Request::path_segment: Some(segment) or None
None == [some |-> FALSE]
Some(v) == [some |-> TRUE, v |-> v]

PathSegment(req, index) ==
    IF index + 1 <= Len(req.path_segments)
    THEN Some(req.path_segments[index + 1]) ELSE None

\* Request::header that looks the name up as given, without lowercasing it.
RequestHeader_Exact(req, name) ==
    IF name \in DOMAIN req.headers THEN Some(req.headers[name]) ELSE None

\* Request::header
RequestHeader(req, name) ==
    IF ToLowercase(name) \in DOMAIN req.headers
    THEN Some(req.headers[ToLowercase(name)]) ELSE None

\* Request::path_segments().len()
NumSegments(req) == Len(req.path_segments)

(***************************************************************************)
(* Match context (filter.rs, struct Context).                              *)
(***************************************************************************)
ContextNew(req) == [request |-> req, path_index |-> 0]

IsPathMatched(ctx) == ctx.path_index = NumSegments(ctx.request)

\* Context::next_segment: the segment at the cursor (or None) and the
\* context with the cursor advanced; the cursor advances in both cases.
NextSegment(ctx) ==
    [res |-> PathSegment(ctx.request, ctx.path_index),
     ctx |-> [ctx EXCEPT !.path_index = @ + 1]]

(***************************************************************************)
(* Filter trees.  A tree is the value the builder methods of trait Filter  *)
(* construct.                                                              *)
(***************************************************************************)
Method(m) == [type |-> "Method", method |-> m]
Path(p) == [type |-> "Path", path |-> p]
PathParam == [type |-> "PathParam"]
Header(name) == [type |-> "Header", name |-> name]
End == [type |-> "End"]
Unit == [type |-> "Unit"]
And(a, b) == [type |-> "And", a |-> a, b |-> b]
Or(a, b) == [type |-> "Or", a |-> a, b |-> b]
Map(f, func) == [type |-> "Map", filter |-> f, func |-> func]
Maybe(f, other) == [type |-> "Maybe", filter |-> f, other |-> other]

\* pub fn get / pub fn post: Method::Get.path(path) = Method.and(Path)
Get(p) == And(Method("Get"), Path(p))
Post(p) == And(Method("Post"), Path(p))

(***************************************************************************)
(* Extract types.  <<"tuple", n>> is a tuple of n values, <<"either", l,   *)
(* r>> an Either, <<"resp">> a Response, <<"val">> any other value and     *)
(* <<"ill">> a tree without the trait implementations it needs.            *)
(***************************************************************************)
TupleT(n) == <<"tuple", n>>
IsTuple(t, n) == t[1] = "tuple" /\ t[2] = n
Ill == <<"ill">>

\* The user functions given to map() and the kind of value each returns.
Funcs == {"ok", "created", "len"}
FuncType(func) == IF func = "len" THEN <<"val">> ELSE <<"resp">>

\* trait Combiner: the implementations that exist
CombineType(ta, tb) ==
    IF ta[1] = "ill" \/ tb[1] = "ill" THEN Ill
    ELSE IF IsTuple(tb, 0) THEN ta
    ELSE IF IsTuple(ta, 0) /\ IsTuple(tb, 1) THEN TupleT(1)
    ELSE IF IsTuple(ta, 1) /\ IsTuple(tb, 1) THEN TupleT(2)
    ELSE IF IsTuple(ta, 2) /\ IsTuple(tb, 1) THEN TupleT(3)
    ELSE Ill

RECURSIVE ExtractType(_)
ExtractType(f) ==
    CASE f.type \in {"Method", "Path", "End", "Unit"} -> TupleT(0)
      [] f.type \in {"PathParam", "Header"} -> TupleT(1)
      [] f.type = "And" -> CombineType(ExtractType(f.a), ExtractType(f.b))
      [] f.type = "Maybe" ->
            IF IsTuple(ExtractType(f.other), 1)
            THEN CombineType(ExtractType(f.filter), TupleT(1))
            ELSE Ill
      [] f.type = "Or" ->
            IF ExtractType(f.a)[1] = "ill" \/ ExtractType(f.b)[1] = "ill"
            THEN Ill
            ELSE <<"either", ExtractType(f.a), ExtractType(f.b)>>
      [] f.type = "Map" ->
            IF ExtractType(f.filter)[1] = "ill" THEN Ill ELSE FuncType(f.func)

WellTyped(f) == ExtractType(f)[1] # "ill"

\* trait IntoResponse is implemented for Response and for Either<A, B> of
\* two IntoResponse types.
RECURSIVE ImplIntoResponse(_)
ImplIntoResponse(t) ==
    \/ t[1] = "resp"
    \/ t[1] = "either" /\ ImplIntoResponse(t[2]) /\ ImplIntoResponse(t[3])

(***************************************************************************)
(* Values.                                                                 *)
(***************************************************************************)
\* enum Either
EitherA(v) == [either |-> "A", v |-> v]
EitherB(v) == [either |-> "B", v |-> v]

\* struct Response and its constructors (response.rs)
NoHeaders == [n \in {} |-> <<>>]
ResponseNew(status_code) ==
    [status_code |-> status_code, headers |-> NoHeaders, body |-> None]
ResponseBody(resp, body) == [resp EXCEPT !.body = Some(body)]
ResponseOk(body) == ResponseBody(ResponseNew(200), body)
ResponseHtml(html) ==
    [ResponseOk(html) EXCEPT !.headers =
        [n \in {<<"Content-Type">>} |-> <<"text/html; charset=utf-8">>]]
ResponseCreated == ResponseNew(201)
ResponseNotFound == ResponseNew(404)

\* The user functions: "ok" renders its argument into the body of a 200
\* response, "created" ignores it, "len" returns a plain value.
ApplyFunc(func, x) ==
    CASE func = "ok" -> ResponseOk(<<"ok", x>>)
      [] func = "created" -> ResponseCreated
      [] func = "len" -> [len_of |-> x]

\* impl IntoResponse for Response / for Either<A, B>
RECURSIVE IntoResponse(_)

\* into_response that answers 404 for the B side of an Either.
IntoResponse_DropB(x) ==
    IF "either" \in DOMAIN x
    THEN IF x.either = "A" THEN IntoResponse(x.v) ELSE ResponseNotFound
    ELSE x

IntoResponse(x) ==
    IF "either" \in DOMAIN x THEN IntoResponse(x.v) ELSE x

\* trait Combiner::combine, one branch per implementation
Combine(a, b) ==
    IF b = <<>> THEN a
    ELSE IF a = <<>> THEN b
    ELSE IF Len(a) = 1 THEN <<a[1], b[1]>>
    ELSE <<a[1], a[2], b[1]>>

\* impl OneTuple for (T,)
OneTupleExtract(t) == t[1]

(***************************************************************************)
(* Filter::filter.  An outcome is the returned Option (res), the context   *)
(* as the call left it (ctx), the calls of filter() made, innermost first  *)
(* (calls) and the user functions invoked (funcs).                         *)
(***************************************************************************)
Outcome(res, ctx) == [res |-> res, ctx |-> ctx, calls |-> <<>>, funcs |-> <<>>]

RECURSIVE Filter(_, _)

\* impl Filter for End
FilterEnd(f, ctx) ==
    IF IsPathMatched(ctx) THEN Outcome(Some(<<>>), ctx) ELSE Outcome(None, ctx)

\* impl Filter for Path
RECURSIVE PathLoop(_, _)
PathLoop(pieces, ctx) ==
    IF pieces = <<>> THEN Outcome(Some(<<>>), ctx)
    ELSE LET n == NextSegment(ctx)
         IN  IF n.res # Some(Head(pieces)) THEN Outcome(None, n.ctx)
             ELSE PathLoop(Tail(pieces), n.ctx)

FilterPath(f, ctx) == PathLoop(Split(f.path), ctx)

\* impl Filter for ()
FilterUnit(f, ctx) == Outcome(Some(<<>>), ctx)

\* impl Filter for PathParam<T>, with T = String (T::from is the identity)
FilterPathParam(f, ctx) ==
    LET n == NextSegment(ctx)
    IN  IF n.res.some THEN Outcome(Some(<<n.res.v>>), n.ctx)
        ELSE Outcome(None, n.ctx)

\* impl Filter for Header
FilterHeader(f, ctx) ==
    LET h == RequestHeader(ctx.request, f.name)
    IN  IF h.some THEN Outcome(Some(<<h.v>>), ctx) ELSE Outcome(None, ctx)

\* Method that matches whatever the request method is.
FilterMethod_Any(f, ctx) == Outcome(Some(<<>>), ctx)

\* impl Filter for Method
FilterMethod(f, ctx) ==
    IF ctx.request.method = f.method
    THEN Outcome(Some(<<>>), ctx) ELSE Outcome(None, ctx)

\* Maybe that runs B on the parent context instead of a fork.
FilterMaybe_NoFork(f, ctx) ==
    LET a == Filter(f.filter, ctx)
    IN  IF ~a.res.some THEN [a EXCEPT !.res = None]
        ELSE LET b == Filter(f.other, a.ctx)
                 opt == IF b.res.some THEN Some(OneTupleExtract(b.res.v))
                        ELSE None
             IN  [res |-> Some(Combine(a.res.v, <<opt>>)),
                  ctx |-> b.ctx,
                  calls |-> a.calls \o b.calls,
                  funcs |-> a.funcs \o b.funcs]

\* impl Filter for Maybe<A, B>
FilterMaybe(f, ctx) ==
    LET a == Filter(f.filter, ctx)
    IN  IF ~a.res.some THEN [a EXCEPT !.res = None]
        ELSE LET sub_ctx == a.ctx
                 b == Filter(f.other, sub_ctx)
                 opt == IF b.res.some THEN Some(OneTupleExtract(b.res.v))
                        ELSE None
             IN  [res |-> Some(Combine(a.res.v, <<opt>>)),
                  ctx |-> IF b.res.some THEN b.ctx ELSE a.ctx,
                  calls |-> a.calls \o b.calls,
                  funcs |-> a.funcs \o b.funcs]

\* And that merges B's values before A's.
FilterAnd_Swapped(f, ctx) ==
    LET a == Filter(f.a, ctx)
    IN  IF ~a.res.some THEN [a EXCEPT !.res = None]
        ELSE LET b == Filter(f.b, a.ctx)
             IN  [res |-> IF b.res.some THEN Some(Combine(b.res.v, a.res.v))
                          ELSE None,
                  ctx |-> b.ctx,
                  calls |-> a.calls \o b.calls,
                  funcs |-> a.funcs \o b.funcs]

\* And that runs B on a fork and hands A's context back.
FilterAnd_ForkB(f, ctx) ==
    LET a == Filter(f.a, ctx)
    IN  IF ~a.res.some THEN [a EXCEPT !.res = None]
        ELSE LET b == Filter(f.b, a.ctx)
             IN  [res |-> IF b.res.some THEN Some(Combine(a.res.v, b.res.v))
                          ELSE None,
                  ctx |-> a.ctx,
                  calls |-> a.calls \o b.calls,
                  funcs |-> a.funcs \o b.funcs]

\* impl Filter for And<A, B>
FilterAnd(f, ctx) ==
    LET a == Filter(f.a, ctx)
    IN  IF ~a.res.some THEN [a EXCEPT !.res = None]
        ELSE LET b == Filter(f.b, a.ctx)
             IN  [res |-> IF b.res.some THEN Some(Combine(a.res.v, b.res.v))
                          ELSE None,
                  ctx |-> b.ctx,
                  calls |-> a.calls \o b.calls,
                  funcs |-> a.funcs \o b.funcs]

\* Or that runs both branches and keeps the one that consumed more.
FilterOr_Longest(f, ctx) ==
    LET a == Filter(f.a, ctx)
        b == Filter(f.b, ctx)
        takeB == b.res.some
                 /\ (a.res.some => b.ctx.path_index > a.ctx.path_index)
    IN  [res |-> IF takeB THEN Some(EitherB(b.res.v))
                 ELSE IF a.res.some THEN Some(EitherA(a.res.v)) ELSE None,
         ctx |-> IF takeB THEN b.ctx ELSE IF a.res.some THEN a.ctx ELSE ctx,
         calls |-> a.calls \o b.calls,
         funcs |-> a.funcs \o b.funcs]

\* Or that runs B on the context A left behind instead of a fresh fork.
FilterOr_SharedCtx(f, ctx) ==
    LET a == Filter(f.a, ctx)
    IN  IF a.res.some
        THEN [res |-> Some(EitherA(a.res.v)), ctx |-> a.ctx,
              calls |-> a.calls, funcs |-> a.funcs]
        ELSE LET b == Filter(f.b, a.ctx)
             IN  [res |-> IF b.res.some THEN Some(EitherB(b.res.v)) ELSE None,
                  ctx |-> IF b.res.some THEN b.ctx ELSE ctx,
                  calls |-> a.calls \o b.calls,
                  funcs |-> a.funcs \o b.funcs]

\* Or that tries B before A.
FilterOr_RightFirst(f, ctx) ==
    LET b == Filter(f.b, ctx)
    IN  IF b.res.some
        THEN [res |-> Some(EitherB(b.res.v)), ctx |-> b.ctx,
              calls |-> b.calls, funcs |-> b.funcs]
        ELSE LET a == Filter(f.a, ctx)
             IN  [res |-> IF a.res.some THEN Some(EitherA(a.res.v)) ELSE None,
                  ctx |-> IF a.res.some THEN a.ctx ELSE ctx,
                  calls |-> b.calls \o a.calls,
                  funcs |-> b.funcs \o a.funcs]

\* Or that hands B's context back to the parent even when B fails.
FilterOr_LeakB(f, ctx) ==
    LET a == Filter(f.a, ctx)
    IN  IF a.res.some
        THEN [res |-> Some(EitherA(a.res.v)), ctx |-> a.ctx,
              calls |-> a.calls, funcs |-> a.funcs]
        ELSE LET b == Filter(f.b, ctx)
             IN  [res |-> IF b.res.some THEN Some(EitherB(b.res.v)) ELSE None,
                  ctx |-> b.ctx,
                  calls |-> a.calls \o b.calls,
                  funcs |-> a.funcs \o b.funcs]

\* impl Filter for Or<A, B>
FilterOr(f, ctx) ==
    LET a_ctx == ctx
        a == Filter(f.a, a_ctx)
    IN  IF a.res.some
        THEN [res |-> Some(EitherA(a.res.v)), ctx |-> a.ctx,
              calls |-> a.calls, funcs |-> a.funcs]
        ELSE LET b_ctx == ctx
                 b == Filter(f.b, b_ctx)
             IN  [res |-> IF b.res.some THEN Some(EitherB(b.res.v)) ELSE None,
                  ctx |-> IF b.res.some THEN b.ctx ELSE ctx,
                  calls |-> a.calls \o b.calls,
                  funcs |-> a.funcs \o b.funcs]

\* Map that calls its function before looking at A's result.
FilterMap_Eager(f, ctx) ==
    LET a == Filter(f.filter, ctx)
        called == Append(a.funcs, [func |-> f.func, arg |-> a.res])
    IN  IF ~a.res.some THEN [a EXCEPT !.res = None, !.funcs = called]
        ELSE [res |-> Some(ApplyFunc(f.func, a.res.v)),
              ctx |-> a.ctx,
              calls |-> a.calls,
              funcs |-> called]

\* impl Filter for Map<A, B, F>
FilterMap(f, ctx) ==
    LET a == Filter(f.filter, ctx)
    IN  IF ~a.res.some THEN [a EXCEPT !.res = None]
        ELSE [res |-> Some(ApplyFunc(f.func, a.res.v)),
              ctx |-> a.ctx,
              calls |-> a.calls,
              funcs |-> Append(a.funcs, [func |-> f.func, arg |-> a.res.v])]

\* One record per call of filter(): the tree called, the cursor on entry
\* (at), the cursor on return (out) and the returned Option.
CallRecord(f, ctx, o) ==
    [node |-> f, at |-> ctx.path_index, out |-> o.ctx.path_index, res |-> o.res]

\* Filter::filter, dispatched on the implementing type
Filter(f, ctx) ==
    LET o == CASE f.type = "End" -> FilterEnd(f, ctx)
               [] f.type = "Path" -> FilterPath(f, ctx)
               [] f.type = "Unit" -> FilterUnit(f, ctx)
               [] f.type = "PathParam" -> FilterPathParam(f, ctx)
               [] f.type = "Header" -> FilterHeader(f, ctx)
               [] f.type = "Method" -> FilterMethod(f, ctx)
               [] f.type = "Maybe" -> FilterMaybe(f, ctx)
               [] f.type = "And" -> FilterAnd(f, ctx)
               [] f.type = "Or" -> FilterOr(f, ctx)
               [] f.type = "Map" -> FilterMap(f, ctx)
    IN  [o EXCEPT !.calls = Append(@, CallRecord(f, ctx, o))]

(***************************************************************************)
(* Handler adapter (request.rs, impl RequestHandler for A: Filter).        *)
(***************************************************************************)
\* handle() without the full-consumption gate.
Handle_NoGate(f, req) ==
    LET o == Filter(f, ContextNew(req))
    IN  IF o.res.some THEN IntoResponse(o.res.v) ELSE ResponseNotFound

Handle(f, req) ==
    LET o == Filter(f, ContextNew(req))
    IN  IF ~IsPathMatched(o.ctx) THEN ResponseNotFound
        ELSE IF o.res.some THEN IntoResponse(o.res.v)
        ELSE ResponseNotFound

(***************************************************************************)
(* The filter trees and requests explored.                                 *)
(***************************************************************************)
Literals == StringsUpTo(PathChars, MaxLitLen) \ {<<>>}
RawPaths == StringsUpTo(PathChars, MaxPathLen)
HeaderMaps ==
    UNION {[names -> HeaderValues] : names \in SUBSET HeaderNames}

Prims ==
    {Method(m) : m \in MethodsUsed} \cup {Path(l) : l \in Literals}
    \cup {Header(n) : n \in HeaderNames} \cup {PathParam, End, Unit}

\* The primitives nested two combinators deep.
CorePrims == {Path(<<"a">>), Path(<<"a", "/", "a">>), PathParam, End}

\* The trees one builder call makes from the trees of S
Combined(S) ==
    {f \in {And(a, b) : a \in S, b \in S} \cup {Or(a, b) : a \in S, b \in S}
            \cup {Maybe(a, b) : a \in S, b \in S}
            \cup {Map(a, g) : a \in S, g \in Funcs} : WellTyped(f)}

\* The routes of the scenarios the specification and the tests name.
Str_hello == <<"h", "e", "l", "l", "o">>
Str_world == <<"w", "o", "r", "l", "d">>
Str_api == <<"a", "p", "i">>
Lit_hello == <<"/">> \o Str_hello
Lit_api_a == Str_api \o <<"/", "a">>
Lit_api_a_b == Str_api \o <<"/", "a", "/", "b">>
Lit_a_b == <<"a", "/", "b">>
Str_users == <<"u", "s", "e", "r", "s">>
Str_alice == <<"a", "l", "i", "c", "e">>
Lit_users == <<"/">> \o Str_users

ScenarioFilters ==
    {Map(Get(Lit_hello), "ok"),
     Map(Get(Str_hello), "ok"),
     Or(Path(Lit_api_a_b), Path(Lit_api_a)),
     Or(And(Path(Lit_api_a), End), And(Path(Lit_api_a_b), End)),
     Or(And(Path(Lit_api_a_b), End), And(Path(Lit_api_a), End)),
     Or(And(Path(<<"/", "a">>), End), And(Path(<<"/">> \o Lit_a_b), End)),
     Or(Map(Path(<<"a">>), "ok"), Map(Path(Lit_a_b), "created")),
     Or(Path(<<"a">>), Path(Lit_a_b)),
     And(Get(Lit_users), PathParam),
     Map(And(Get(Lit_users), PathParam), "ok"),
     And(And(PathParam, Header(<<"k">>)), PathParam)}

ScenarioPaths ==
    {Lit_hello, <<"/">> \o Str_world, <<"/">> \o Lit_api_a,
     <<"/">> \o Lit_api_a_b, <<"/", "a">>, <<"/">> \o Lit_a_b,
     Lit_users, Lit_users \o <<"/">> \o Str_alice,
     Lit_users \o <<"/">> \o Str_alice \o <<"/", "x">>}

Filters ==
    Prims \cup Combined(Prims) \cup Combined(CorePrims \cup Combined(CorePrims))
    \cup ScenarioFilters

PathsFor(f) == IF f \in ScenarioFilters THEN ScenarioPaths ELSE RawPaths

(***************************************************************************)
(* The state machine: a tree is built once, a request view is constructed  *)
(* and the tree is run on it, directly or through the handler adapter.     *)
(***************************************************************************)
NoRequest == [method |-> "none", path_segments |-> <<>>, headers |-> NoHeaders]
NoOutcome == Outcome(None, ContextNew(NoRequest))

\* input holds the arguments a request view is constructed from and written
\* the writes a socket has accepted; the routing runs leave both alone.
NoInput == [kind |-> "none"]

\* router, conns, queue, workers, lock and listener belong to a running
\* server; without one they stay as they are here.
NoRouter == [type |-> "Router", prefix |-> <<>>, routes |-> <<>>]
ServerOff ==
    /\ router = NoRouter
    /\ conns = <<>>
    /\ queue = <<>>
    /\ workers = <<>>
    /\ lock = 0
    /\ listener = "none"

Init ==
    /\ filter \in Filters
    /\ request = NoRequest
    /\ pc = "built"
    /\ result = NoOutcome
    /\ response = ResponseNew(0)
    /\ input = NoInput
    /\ written = <<>>
    /\ ServerOff

\* Request::new
NewRequest ==
    /\ pc = "built"
    /\ \E m \in MethodsUsed, p \in PathsFor(filter), h \in HeaderMaps :
            request' \in RequestNew(m, p, h)
    /\ pc' = "request"
    /\ UNCHANGED <<filter, result, response, input, written, serverVars>>

\* filter.filter(&mut Context::new(&req))
RunFilter ==
    /\ pc = "request"
    /\ result' = Filter(filter, ContextNew(request))
    /\ pc' = "filtered"
    /\ UNCHANGED <<filter, request, response, input, written, serverVars>>

\* RequestHandler::handle(&req)
RunHandle ==
    /\ pc = "request"
    /\ ImplIntoResponse(ExtractType(filter))
    /\ result' = Filter(filter, ContextNew(request))
    /\ response' = Handle(filter, request)
    /\ pc' = "handled"
    /\ UNCHANGED <<filter, request, input, written, serverVars>>

Next == NewRequest \/ RunFilter \/ RunHandle

Spec == Init /\ [][Next]_vars

(***************************************************************************)
(* Request::parse (request.rs).  The bytes a client sends are the request  *)
(* line (words joined by a space), one line per header field, a blank line *)
(* when `terminated`, and the body bytes; `fault` makes the first read     *)
(* fail.                                                                   *)
(***************************************************************************)
RECURSIVE JoinWords(_)
JoinWords(words) ==
    IF words = <<>> THEN <<>>
    ELSE IF Len(words) = 1 THEN words[1]
    ELSE words[1] \o <<" ">> \o JoinWords(Tail(words))

StreamLines(in) ==
    <<JoinWords(in.words)>>
    \o [i \in 1..Len(in.fields) |-> in.fields[i][1] \o <<":", " ">> \o in.fields[i][2]]
    \o (IF in.terminated THEN <<<<>>>> ELSE <<>>)

\* for line in buf_reader.lines(): the lines before the first empty one
RECURSIVE HeadLines(_)
HeadLines(lines) ==
    IF lines = <<>> \/ Head(lines) = <<>> THEN <<>>
    ELSE <<Head(lines)>> \o HeadLines(Tail(lines))

\* str::split_whitespace
RECURSIVE SplitSpaceFrom(_, _, _)
SplitSpaceFrom(s, i, cur) ==
    IF i > Len(s) THEN <<cur>>
    ELSE IF s[i] = " " THEN <<cur>> \o SplitSpaceFrom(s, i + 1, <<>>)
    ELSE SplitSpaceFrom(s, i + 1, Append(cur, s[i]))

SplitWhitespace(s) == NonEmpty(SplitSpaceFrom(s, 1, <<>>))

\* str::trim
RECURSIVE TrimSpaceStart(_)
TrimSpaceStart(s) ==
    IF s # <<>> /\ Head(s) = " " THEN TrimSpaceStart(Tail(s)) ELSE s

RECURSIVE TrimSpaceEnd(_)
TrimSpaceEnd(s) ==
    IF s # <<>> /\ s[Len(s)] = " "
    THEN TrimSpaceEnd(SubSeq(s, 1, Len(s) - 1)) ELSE s

Trim(s) == TrimSpaceEnd(TrimSpaceStart(s))

\* str::split_once(':'): the index of the first ':' or 0
RECURSIVE ColonFrom(_, _)
ColonFrom(s, i) ==
    IF i > Len(s) THEN 0 ELSE IF s[i] = ":" THEN i ELSE ColonFrom(s, i + 1)

\* str::to_uppercase on the characters of the method words drawn
UpperChar(c) ==
    CASE c = "g" -> "G" [] c = "e" -> "E" [] c = "t" -> "T" [] OTHER -> c
ToUppercase(s) == [i \in 1..Len(s) |-> UpperChar(s[i])]

\* impl FromStr for Method (method.rs)
MethodWords ==
    [GET |-> <<"G", "E", "T">>, POST |-> <<"P", "O", "S", "T">>,
     PUT |-> <<"P", "U", "T">>, DELETE |-> <<"D", "E", "L", "E", "T", "E">>,
     PATCH |-> <<"P", "A", "T", "C", "H">>, HEAD |-> <<"H", "E", "A", "D">>,
     OPTIONS |-> <<"O", "P", "T", "I", "O", "N", "S">>]

MethodFromStr(w) ==
    LET u == ToUppercase(w)
    IN  CASE u = MethodWords.GET -> Some("Get")
          [] u = MethodWords.POST -> Some("Post")
          [] u = MethodWords.PUT -> Some("Put")
          [] u = MethodWords.DELETE -> Some("Delete")
          [] u = MethodWords.PATCH -> Some("Patch")
          [] u = MethodWords.HEAD -> Some("Head")
          [] u = MethodWords.OPTIONS -> Some("Options")
          [] OTHER -> None

\* the header map built from the lines after the first; a later line with
\* the same key replaces an earlier one.
RECURSIVE ParseHeaders(_, _)
ParseHeaders(lines, headers) ==
    IF lines = <<>> THEN headers
    ELSE LET line == Head(lines)
             c == ColonFrom(line, 1)
             key == ToLowercase(Trim(SubSeq(line, 1, c - 1)))
             value == Trim(SubSeq(line, c + 1, Len(line)))
         IN  IF c = 0 THEN ParseHeaders(Tail(lines), headers)
             ELSE ParseHeaders(Tail(lines),
                    [k \in DOMAIN headers \cup {key} |->
                        IF k = key THEN value ELSE headers[k]])

\* str::parse::<usize> on the digits drawn: Some(n) or None
DigitOf(c) == CASE c = "0" -> 0 [] c = "1" -> 1 [] c = "2" -> 2 [] OTHER -> -1

RECURSIVE ParseDigits(_, _)
ParseDigits(s, acc) ==
    IF s = <<>> THEN Some(acc)
    ELSE IF DigitOf(Head(s)) < 0 THEN None
    ELSE ParseDigits(Tail(s), 10 * acc + DigitOf(Head(s)))

ParseUsize(s) ==
    LET digits == IF s # <<>> /\ Head(s) = "+" THEN Tail(s) ELSE s
    IN  IF digits = <<>> THEN None ELSE ParseDigits(digits, 0)

ContentLengthKey == <<"content-length">>

ParseErr(e) == [ok |-> FALSE, err |-> e]
ParseOk(req) == [ok |-> TRUE, request |-> req]

\* Request::parse (the body bytes read are not kept in the modelled view)
RequestParse(in) ==
    LET lines == HeadLines(StreamLines(in))
        parts == SplitWhitespace(lines[1])
        method == MethodFromStr(parts[1])
        headers == ParseHeaders(Tail(lines), NoHeaders)
        length == ParseUsize(headers[ContentLengthKey])
    IN  IF in.fault THEN ParseErr("IoError")
        ELSE IF lines = <<>> THEN ParseErr("MalformedRequest")
        ELSE IF Len(parts) < 2 THEN ParseErr("MalformedRequest")
        ELSE IF ~method.some THEN ParseErr("UnrecognizedMethod")
        ELSE IF ContentLengthKey \in DOMAIN headers /\ ~length.some
             THEN ParseErr("InvalidContentLength")
        ELSE IF ContentLengthKey \in DOMAIN headers /\ length.v > Len(in.body)
             THEN ParseErr("IoError")
        ELSE ParseOk([method |-> method.v,
                      path_segments |-> Split(parts[2]),
                      headers |-> headers])

(***************************************************************************)
(* Constructing request views: the arguments are drawn first, then one of  *)
(* the two constructors is applied and a Header filter is run on the view. *)
(***************************************************************************)
NewInputs ==
    [kind : {"new"}, method : MethodsUsed, path : RawPaths, headers : HeaderMaps]

MethodWordsUsed ==
    {MethodWords.GET, <<"g", "e", "t">>, MethodWords.POST, <<"F", "O", "O">>}
HttpVersion == <<"HTTP/1.1">>
RequestLines ==
    {<<>>} \cup {<<m>> : m \in MethodWordsUsed}
    \cup {<<m, p, HttpVersion>> : m \in MethodWordsUsed, p \in RawPaths \ {<<>>}}
FieldNames == HeaderNames \cup {<<"Content-Length">>}
FieldValues == {<<"v">>, <<"1">>, <<"x">>}
Fields == {<<n, v>> : n \in FieldNames, v \in FieldValues}
FieldLists == UNION {[1..n -> Fields] : n \in 0..MaxFields}
StreamInputs ==
    [kind : {"stream"}, words : RequestLines, fields : FieldLists,
     terminated : BOOLEAN, body : {<<>>, <<"b">>}, fault : BOOLEAN]

HeaderFilters == {Header(n) : n \in HeaderNames}

InitRequest ==
    /\ filter \in HeaderFilters
    /\ input \in NewInputs \cup StreamInputs
    /\ request = NoRequest
    /\ pc = "input"
    /\ result = NoOutcome
    /\ response = ResponseNew(0)
    /\ written = <<>>
    /\ ServerOff

\* Request::new(method, path, headers, body)
BuildRequest ==
    /\ pc = "input"
    /\ input.kind = "new"
    /\ request' \in RequestNew(input.method, input.path, input.headers)
    /\ pc' = "request"
    /\ UNCHANGED <<filter, result, response, input, written, serverVars>>

\* Request::parse(&stream)
ParseRequest ==
    /\ pc = "input"
    /\ input.kind = "stream"
    /\ LET r == RequestParse(input)
       IN  IF r.ok THEN request' = r.request /\ pc' = "request"
           ELSE request' = request /\ pc' = "parse_error"
    /\ UNCHANGED <<filter, result, response, input, written, serverVars>>

NextRequest == BuildRequest \/ ParseRequest \/ RunFilter

SpecRequest == InitRequest /\ [][NextRequest]_vars

(***************************************************************************)
(* Response::write_to_stream (response.rs).  A write is one write! or      *)
(* write_all call on the unbuffered TcpStream; `written` holds the writes  *)
(* the socket accepted.                                                    *)
(***************************************************************************)
\* Response::status_text
StatusText(code) ==
    CASE code = 200 -> "OK" [] code = 201 -> "Created"
      [] code = 204 -> "No Content" [] code = 301 -> "Moved Permanently"
      [] code = 302 -> "Found" [] code = 304 -> "Not Modified"
      [] code = 400 -> "Bad Request" [] code = 401 -> "Unauthorized"
      [] code = 403 -> "Forbidden" [] code = 404 -> "Not Found"
      [] code = 405 -> "Method Not Allowed"
      [] code = 500 -> "Internal Server Error"
      [] code = 502 -> "Bad Gateway" [] code = 503 -> "Service Unavailable"
      [] OTHER -> "Unknown"

\* Display of a usize ("{}" of body.len())
DigitChars == <<"0", "1", "2", "3", "4", "5", "6", "7", "8", "9">>
RECURSIVE FormatUsize(_)
FormatUsize(n) ==
    IF n < 10 THEN <<DigitChars[n + 1]>>
    ELSE FormatUsize(n \div 10) \o <<DigitChars[(n % 10) + 1]>>

StatusLine(resp) ==
    [w |-> "status", code |-> resp.status_code, text |-> StatusText(resp.status_code)]
HeaderLine(key, value) == [w |-> "header", key |-> key, value |-> value]
BlankLine == [w |-> "blank"]
BodyBytes(bytes) == [w |-> "body", bytes |-> bytes]
ContentLengthName == <<"Content-Length">>

\* The orders in which `for (key, value) in &self.headers` can visit keys.
Orders(keys) ==
    {o \in [1..Cardinality(keys) -> keys] :
        \A i, j \in 1..Cardinality(keys) : i # j => o[i] # o[j]}

\* The writes of write_to_stream, in order, for one iteration order.
Writes(resp, order) ==
    <<StatusLine(resp)>>
    \o [i \in 1..Len(order) |-> HeaderLine(order[i], resp.headers[order[i]])]
    \o (IF resp.body.some
        THEN IF ContentLengthName \notin DOMAIN resp.headers
             THEN <<HeaderLine(ContentLengthName, FormatUsize(Len(resp.body.v)))>>
             ELSE <<>>
        ELSE <<HeaderLine(ContentLengthName, <<"0">>)>>)
    \o <<BlankLine>>
    \o (IF resp.body.some THEN <<BodyBytes(resp.body.v)>> ELSE <<>>)

\* The responses the builder methods construct.
ResponseHeaderNames == {ContentLengthName, <<"content-length">>, <<"X">>}
ResponseHeaderValues == {<<"5">>}
Bodies == {Some(b) : b \in StringsUpTo({"b"}, MaxBodyLen)} \cup {None}
ResponseHeaderMaps ==
    UNION {[names -> ResponseHeaderValues] : names \in SUBSET ResponseHeaderNames}
Responses ==
    {[status_code |-> c, headers |-> h, body |-> b] :
        c \in {200, 404}, h \in ResponseHeaderMaps, b \in Bodies}

InitResponse ==
    /\ response \in Responses
    /\ written = <<>>
    /\ pc = "response"
    /\ filter = Unit
    /\ request = NoRequest
    /\ result = NoOutcome
    /\ input = NoInput
    /\ ServerOff

\* response.write_to_stream(&mut stream): every write succeeds, or write
\* number `failed` returns an error and `?` returns it to the caller.
WriteToStream ==
    /\ pc = "response"
    /\ \E order \in Orders(DOMAIN response.headers) :
        LET ws == Writes(response, order)
        IN  \E failed \in 0..Len(ws) :
                IF failed = 0
                THEN written' = ws /\ pc' = "written"
                ELSE written' = SubSeq(ws, 1, failed - 1) /\ pc' = "write_error"
    /\ UNCHANGED <<filter, request, result, response, input, serverVars>>

NextResponse == WriteToStream

SpecResponse == InitResponse /\ [][NextResponse]_vars

(***************************************************************************)
(* Router (router.rs): routes and nested routers, tried in registration    *)
(* order.  A handler closure returns a response or panics.                 *)
(***************************************************************************)
Route(path, method, handler) ==
    [type |-> "Route", path |-> path, method |-> method, handler |-> handler]
RouterOf(prefix, routes) ==
    [type |-> "Router", prefix |-> prefix, routes |-> routes]

\* Request::path: the segments joined by "/"
RECURSIVE JoinSegments(_)
JoinSegments(segments) ==
    IF segments = <<>> THEN <<>>
    ELSE IF Len(segments) = 1 THEN segments[1]
    ELSE segments[1] \o <<"/">> \o JoinSegments(Tail(segments))
RequestPath(req) == JoinSegments(req.path_segments)

\* impl Handler for F: (self)(req).into_response(), or the closure's panic
Panicked == [panicked |-> TRUE]
IsPanic(r) == "panicked" \in DOMAIN r
HandlerHandle(handler, req) ==
    IF handler.kind = "panic" THEN Panicked
    ELSE IF handler.kind = "html" THEN IntoResponse(ResponseHtml(handler.body))
    ELSE IntoResponse(ResponseOk(handler.body))

\* impl RouteHandler for Route / for Router
RECURSIVE RouteHandle(_, _, _)
RECURSIVE FindMap(_, _, _)
NoneInvoked(invoked) == [some |-> FALSE, invoked |-> invoked]
SomeInvoked(v, invoked) == [some |-> TRUE, v |-> v, invoked |-> invoked]

\* Besides the Option the code returns, invoked lists the handlers that
\* were called to produce it, in call order.
RouteHandle(entry, prefix, req) ==
    IF entry.type = "Route"
    THEN LET route_path == prefix \o entry.path
             is_matching == RequestPath(req) = route_path
                            /\ entry.method = req.method
         IN  IF ~is_matching THEN NoneInvoked(<<>>)
             ELSE SomeInvoked(HandlerHandle(entry.handler, req),
                              <<entry.handler>>)
    ELSE FindMap(entry.routes, prefix \o entry.prefix, req)

\* find_map that maps every route before it looks for the first Some.
FindMap_Eager(routes, prefix, req) ==
    IF routes = <<>> THEN NoneInvoked(<<>>)
    ELSE LET r == RouteHandle(Head(routes), prefix, req)
             rest == FindMap(Tail(routes), prefix, req)
             all == r.invoked \o rest.invoked
         IN  IF r.some THEN [r EXCEPT !.invoked = all]
             ELSE [rest EXCEPT !.invoked = all]

\* routes.iter().find_map(|route| route.handle(&prefix, request))
FindMap(routes, prefix, req) ==
    IF routes = <<>> THEN NoneInvoked(<<>>)
    ELSE LET r == RouteHandle(Head(routes), prefix, req)
         IN  IF r.some THEN r ELSE FindMap(Tail(routes), prefix, req)

\* Router::handle
RouterHandle(r, req) ==
    LET found == FindMap(r.routes, r.prefix, req)
    IN  IF found.some THEN found.v ELSE ResponseNotFound
RouterInvoked(r, req) == FindMap(r.routes, r.prefix, req).invoked

(***************************************************************************)
(* Server::run on a ThreadPool (server.rs, threads.rs).  The listener      *)
(* thread accepts connections and sends one job per connection into the    *)
(* channel; each worker thread loops: lock the receiver, recv, unlock, run *)
(* the job (parse, handle, write).  conns[c].log records what happened to  *)
(* connection c, in order.                                                 *)
(***************************************************************************)
ThreadCount == 2    \* config.thread_count
MaxConns == 3       \* connections the listener yields
MaxJobs == 3        \* jobs the owner of a pool submits

Workers == 1..ThreadCount
HandlerOk(body) == [kind |-> "ok", body |-> body]
HandlerPanics == [kind |-> "panic"]
\* The router served: a root route, a nested router and a route whose
\* handler panics.
ServedRouter ==
    RouterOf(<<>>, <<Route(<<"/">>, "Get", HandlerOk(<<"r">>)),
                     RouterOf(<<"/">>,
                         <<Route(<<"a">>, "Get", HandlerOk(<<"n">>))>>),
                     Route(<<"/">>, "Post", HandlerPanics)>>)

\* What the clients send: the three routes and an unknown method.
ServerWords ==
    {<<MethodWords.GET, <<"/">>, HttpVersion>>,
     <<MethodWords.GET, <<"/", "a">>, HttpVersion>>,
     <<MethodWords.POST, <<"/">>, HttpVersion>>,
     <<<<"F", "O", "O">>, <<"/">>, HttpVersion>>}
ServerInputs ==
    {[kind |-> "stream", words |-> w, fields |-> <<>>, terminated |-> TRUE,
      body |-> <<>>, fault |-> FALSE] : w \in ServerWords}

IdleWorker ==
    [state |-> "idle", conn |-> 0, request |-> NoRequest,
     response |-> ResponseNew(0)]
DeadWorker == [IdleWorker EXCEPT !.state = "dead"]
Executing(w) == workers[w].state \in {"parse", "handle", "write"}
Alive(w) == workers[w].state # "dead"
Gone(w) == workers[w].state \in {"dead", "exited"}

\* The receiver is owned by the worker threads alone: when the last of
\* them ends, the channel and the jobs still in it are dropped.
LastThread(w) == \A v \in DOMAIN workers \ {w} : Gone(v)
DropQueued(cs) ==
    [c \in DOMAIN cs |->
        IF \E i \in DOMAIN queue : queue[i] = c
        THEN [cs[c] EXCEPT !.log = Append(@, "dropped")] ELSE cs[c]]
Event(c, ev) == [conns EXCEPT ![c].log = Append(@, ev)]

\* Server::new and run up to the first incoming(): ThreadPool::new has
\* spawned thread_count workers on the shared receiver.
InitServer ==
    /\ router = ServedRouter
    /\ conns = <<>>
    /\ queue = <<>>
    /\ workers = [w \in Workers |-> IdleWorker]
    /\ lock = 0
    /\ listener = "listening"
    /\ filter = Unit
    /\ request = NoRequest
    /\ pc = "serving"
    /\ result = NoOutcome
    /\ response = ResponseNew(0)
    /\ input = NoInput
    /\ written = <<>>

coreVars == <<filter, request, pc, result, response, input, written>>

\* incoming() yields Ok(stream): pool.execute sends the job; the send fails
\* and unwrap panics once every worker thread, and with it the receiver,
\* is gone.
Accept ==
    /\ listener = "listening"
    /\ Len(conns) < MaxConns
    /\ \E in \in ServerInputs :
        LET c == Len(conns) + 1
        IN  IF \E w \in DOMAIN workers : ~Gone(w)
            THEN /\ conns' = Append(conns,
                        [input |-> in, log |-> <<"queued">>, written |-> <<>>])
                 /\ queue' = Append(queue, c)
                 /\ listener' = listener
            ELSE /\ conns' = Append(conns,
                        [input |-> in, log |-> <<>>, written |-> <<>>])
                 /\ queue' = queue
                 /\ listener' = "crashed"
    /\ UNCHANGED <<router, workers, lock, coreVars>>

\* incoming() yields Err(e): logged, the loop goes on.
AcceptError ==
    /\ listener = "listening"
    /\ Len(conns) < MaxConns
    /\ conns' = Append(conns,
            [input |-> NoInput, log |-> <<"accept_error">>, written |-> <<>>])
    /\ UNCHANGED <<router, queue, workers, lock, listener, coreVars>>

\* receiver.lock().unwrap()
Lock(w) ==
    /\ workers[w].state = "idle"
    /\ lock = 0
    /\ lock' = w
    /\ workers' = [workers EXCEPT ![w].state = "waiting"]
    /\ UNCHANGED <<router, conns, queue, listener, coreVars>>

\* Recv that keeps the guard while the job runs.
Recv_NoPop(w) ==
    /\ workers[w].state = "waiting"
    /\ queue # <<>>
    /\ workers' = [workers EXCEPT ![w].state = "parse", ![w].conn = Head(queue)]
    /\ conns' = Event(Head(queue), "dequeued")
    /\ queue' = queue
    /\ lock' = 0
    /\ UNCHANGED <<router, listener, coreVars>>

Recv_HoldLock(w) ==
    /\ workers[w].state = "waiting"
    /\ queue # <<>>
    /\ workers' = [workers EXCEPT ![w].state = "parse", ![w].conn = Head(queue)]
    /\ conns' = Event(Head(queue), "dequeued")
    /\ queue' = Tail(queue)
    /\ UNCHANGED <<router, lock, listener, coreVars>>

\* .recv() returns Ok(job); the guard is a temporary of the let statement
\* and is dropped before job() is called.
Recv(w) ==
    /\ workers[w].state = "waiting"
    /\ queue # <<>>
    /\ workers' = [workers EXCEPT ![w].state = "parse", ![w].conn = Head(queue)]
    /\ conns' = Event(Head(queue), "dequeued")
    /\ queue' = Tail(queue)
    /\ lock' = 0
    /\ UNCHANGED <<router, listener, coreVars>>

\* The request the handler of worker w's job is given.
JobRequest_Shared(w) ==
    LET parsed == {v \in Workers : workers[v].state = "handle"}
    IN  workers[CHOOSE v \in parsed : \A u \in parsed : v <= u].request

JobRequest(w) == workers[w].request

\* Job that hands the handler a request even when parsing failed.
JobParse_Forward(w) ==
    /\ workers[w].state = "parse"
    /\ LET r == RequestParse(conns[workers[w].conn].input)
       IN  /\ workers' = [workers EXCEPT ![w].state = "handle",
                   ![w].request = IF r.ok THEN r.request ELSE NoRequest]
           /\ conns' = Event(workers[w].conn,
                   IF r.ok THEN "parsed" ELSE "parse_error")
    /\ UNCHANGED <<router, queue, lock, listener, coreVars>>

\* match Request::parse(&stream): Err(e) is logged and the job returns.
JobParse(w) ==
    /\ workers[w].state = "parse"
    /\ LET r == RequestParse(conns[workers[w].conn].input)
       IN  IF r.ok
           THEN /\ workers' = [workers EXCEPT ![w].state = "handle",
                                              ![w].request = r.request]
                /\ conns' = Event(workers[w].conn, "parsed")
           ELSE /\ workers' = [workers EXCEPT ![w] = IdleWorker]
                /\ conns' = Event(workers[w].conn, "parse_error")
    /\ UNCHANGED <<router, queue, lock, listener, coreVars>>

\* let response = router.handle(&request); a panic of the handler unwinds
\* the worker thread, which nothing catches.
JobHandle(w) ==
    /\ workers[w].state = "handle"
    /\ LET r == RouterHandle(router, JobRequest(w))
       IN  IF IsPanic(r)
           THEN /\ workers' = [workers EXCEPT ![w] = DeadWorker]
                /\ IF LastThread(w)
                   THEN /\ conns' = DropQueued(Event(workers[w].conn, "panicked"))
                        /\ queue' = <<>>
                   ELSE /\ conns' = Event(workers[w].conn, "panicked")
                        /\ queue' = queue
           ELSE /\ workers' = [workers EXCEPT ![w].state = "write",
                                              ![w].response = r]
                /\ conns' = Event(workers[w].conn, "handled")
                /\ queue' = queue
    /\ UNCHANGED <<router, lock, listener, coreVars>>

\* response.write_to_stream(&mut stream); an Err is logged and the job
\* returns.
JobWrite(w) ==
    /\ workers[w].state = "write"
    /\ \E order \in Orders(DOMAIN workers[w].response.headers) :
        LET ws == Writes(workers[w].response, order)
            c == workers[w].conn
        IN  \E failed \in 0..Len(ws) :
                conns' = [conns EXCEPT
                    ![c].written = IF failed = 0 THEN ws
                                   ELSE SubSeq(ws, 1, failed - 1),
                    ![c].log = Append(@,
                        IF failed = 0 THEN "written" ELSE "write_error")]
    /\ workers' = [workers EXCEPT ![w] = IdleWorker]
    /\ UNCHANGED <<router, queue, lock, listener, coreVars>>

NextServer ==
    \/ Accept
    \/ AcceptError
    \/ \E w \in Workers :
            Lock(w) \/ Recv(w) \/ JobParse(w) \/ JobHandle(w) \/ JobWrite(w)

SpecServer == InitServer /\ [][NextServer]_vars

(***************************************************************************)
(* ThreadPool on its own (threads.rs): an owner creates a pool of 0 to     *)
(* thread_count workers, passes it the same jobs through execute and may   *)
(* drop it at any time.                                                    *)
(***************************************************************************)
\* ThreadPool::new(num_threads)
InitPool ==
    /\ router = ServedRouter
    /\ conns = <<>>
    /\ queue = <<>>
    /\ workers \in {[w \in 1..n |-> IdleWorker] : n \in 0..ThreadCount}
    /\ lock = 0
    /\ listener = "listening"
    /\ filter = Unit
    /\ request = NoRequest
    /\ pc = "pool"
    /\ result = NoOutcome
    /\ response = ResponseNew(0)
    /\ input = NoInput
    /\ written = <<>>

\* The jobs the owner submits: closures that return, closures that panic.
PoolInputs == {[kind |-> "job", panics |-> p] : p \in BOOLEAN}

\* execute on a channel that takes the job whether or not it has a receiver.
Execute_AlwaysQueue ==
    /\ listener = "listening"
    /\ Len(conns) < MaxJobs
    /\ \E in \in PoolInputs :
        /\ conns' = Append(conns,
                [input |-> in, log |-> <<"queued">>, written |-> <<>>])
        /\ queue' = Append(queue, Len(conns) + 1)
        /\ listener' = listener
    /\ UNCHANGED <<router, workers, lock, coreVars>>

\* ThreadPool::execute: sender.send(job).unwrap(). The send fails, and the
\* unwrap panics in the caller, when no worker thread holds the receiver.
Execute ==
    /\ listener = "listening"
    /\ Len(conns) < MaxJobs
    /\ \E in \in PoolInputs :
        LET c == Len(conns) + 1
        IN  IF \E w \in DOMAIN workers : ~Gone(w)
            THEN /\ conns' = Append(conns,
                        [input |-> in, log |-> <<"queued">>, written |-> <<>>])
                 /\ queue' = Append(queue, c)
                 /\ listener' = listener
            ELSE /\ conns' = Append(conns,
                        [input |-> in, log |-> <<>>, written |-> <<>>])
                 /\ queue' = queue
                 /\ listener' = "crashed"
    /\ UNCHANGED <<router, workers, lock, coreVars>>

\* job(): the closure runs on the worker's thread; a panic unwinds the
\* thread, which nothing catches.
Job(w) ==
    /\ workers[w].state = "parse"
    /\ IF conns[workers[w].conn].input.panics
       THEN /\ workers' = [workers EXCEPT ![w] = DeadWorker]
            /\ IF LastThread(w)
               THEN /\ conns' = DropQueued(Event(workers[w].conn, "panicked"))
                    /\ queue' = <<>>
               ELSE /\ conns' = Event(workers[w].conn, "panicked")
                    /\ queue' = queue
       ELSE /\ workers' = [workers EXCEPT ![w] = IdleWorker]
            /\ conns' = Event(workers[w].conn, "returned")
            /\ queue' = queue
    /\ UNCHANGED <<router, lock, listener, coreVars>>

\* Drop that leaves the sender in place.
Shutdown_KeepSender ==
    /\ listener = "listening"
    /\ listener' = "joining"
    /\ UNCHANGED <<router, conns, queue, workers, lock, coreVars>>

\* Drop::drop: drop(self.sender.take())
Shutdown ==
    /\ listener = "listening"
    /\ listener' = "dropping"
    /\ UNCHANGED <<router, conns, queue, workers, lock, coreVars>>

\* .recv() returns Err: the channel is empty and the sender is gone; the
\* worker breaks out of its loop.
Disconnect(w) ==
    /\ workers[w].state = "waiting"
    /\ queue = <<>>
    /\ listener \in {"dropping", "drop_panicked"}
    /\ workers' = [workers EXCEPT ![w].state = "exited"]
    /\ lock' = 0
    /\ UNCHANGED <<router, conns, queue, listener, coreVars>>

\* Drop::drop: worker.handle.join().unwrap() over the workers in order;
\* the join of a thread that panicked is an Err and unwrap panics.
Join ==
    /\ listener \in {"dropping", "joining"}
    /\ \/ /\ \A w \in DOMAIN workers : workers[w].state = "exited"
          /\ listener' = "dropped"
       \/ /\ \E w \in DOMAIN workers :
                /\ workers[w].state = "dead"
                /\ \A v \in DOMAIN workers : v < w => Gone(v)
          /\ listener' = "drop_panicked"
    /\ UNCHANGED <<router, conns, queue, workers, lock, coreVars>>

WorkerStep(w) == Lock(w) \/ Recv(w) \/ Disconnect(w) \/ Job(w)

NextPool ==
    \/ Execute
    \/ Shutdown
    \/ Join
    \/ \E w \in DOMAIN workers : WorkerStep(w)

SpecPool == InitPool /\ [][NextPool]_vars

\* Every worker thread and the dropping thread keep being scheduled.
FairSpecPool ==
    /\ SpecPool
    /\ \A w \in Workers : WF_vars(w \in DOMAIN workers /\ WorkerStep(w))
    /\ WF_vars(Join)

(***************************************************************************)
(* Router on its own (router.rs, main.rs): a router is built, a request    *)
(* view is constructed by Request::new or Request::parse, and              *)
(* Router::handle dispatches it.  result.funcs holds the handlers that     *)
(* were invoked.                                                           *)
(***************************************************************************)
HandlerHtml(body) == [kind |-> "html", body |-> body]
Path_users == <<"/">> \o Str_users
Path_posts == <<"/", "p", "o", "s", "t", "s">>
Path_v1 == <<"/", "v", "1">>
Path_v2 == <<"/", "v", "2">>
Path_api == <<"/">> \o Str_api

\* main: the router the binary serves
MainRouter ==
    LET v1 == RouterOf(Path_v1,
                <<Route(Path_users, "Get", HandlerOk(<<"List of users from v1">>)),
                  Route(Path_posts, "Get", HandlerOk(<<"List of posts from v1">>))>>)
        v2 == RouterOf(Path_v2,
                <<Route(Path_users, "Get", HandlerOk(<<"List of users from v2">>))>>)
        api == RouterOf(Path_api, <<v1, v2>>)
    IN  RouterOf(<<>>,
            <<Route(<<"/">>, "Get", HandlerHtml(<<"<h1>Welcome to RustServe!</h1>">>)),
              api>>)

\* Routers built with prefix, new, get, post and nested: entries shadowed
\* by earlier ones, a route after a nested router that matches the same
\* request, empty routers, paths with and without a leading "/".
Routers ==
    {MainRouter,
     RouterOf(<<>>, <<>>),
     RouterOf(<<>>,
        <<Route(<<"/">>, "Get", HandlerOk(<<"1">>)),
          RouterOf(<<"/", "a">>,
             <<Route(<<"/", "b">>, "Get", HandlerOk(<<"2">>)),
               Route(<<>>, "Post", HandlerOk(<<"3">>))>>),
          Route(<<"/", "a", "/", "b">>, "Get", HandlerOk(<<"4">>)),
          Route(<<"/", "a">>, "Post", HandlerPanics)>>),
     RouterOf(<<>>,
        <<Route(<<"/", "a">>, "Get", HandlerOk(<<"1">>)),
          Route(<<"/", "a">>, "Get", HandlerPanics),
          Route(<<"/", "a">>, "Post", HandlerPanics),
          Route(<<"a">>, "Get", HandlerOk(<<"2">>)),
          RouterOf(<<"a">>, <<Route(<<>>, "Get", HandlerOk(<<"3">>))>>)>>),
     RouterOf(<<"/", "a">>,
        <<RouterOf(<<>>, <<>>),
          RouterOf(<<"/">>, <<Route(<<"b">>, "Get", HandlerOk(<<"1">>))>>),
          Route(<<"/", "b">>, "Get", HandlerOk(<<"2">>)),
          Route(<<>>, "Get", HandlerOk(<<"3">>))>>)}

\* The requests sent to them, through either constructor.
RouterPaths ==
    {<<"/">>, <<"a">>, <<"/", "a">>, <<"/", "a", "/", "b">>, <<"/", "b">>,
     Path_api \o Path_v1 \o Path_users, Path_api \o Path_v2 \o Path_users,
     Path_api \o Path_v1 \o Path_posts, Path_api \o Path_v2 \o Path_posts}
RouterInputs ==
    {[kind |-> "new", method |-> m, path |-> p, headers |-> NoHeaders] :
        m \in MethodsUsed, p \in RouterPaths}
    \cup
    {[kind |-> "stream", words |-> <<w, p, HttpVersion>>, fields |-> <<>>,
      terminated |-> TRUE, body |-> <<>>, fault |-> FALSE] :
        w \in {MethodWords.GET, MethodWords.POST}, p \in RouterPaths}

InitRouter ==
    /\ router \in Routers
    /\ input \in RouterInputs
    /\ request = NoRequest
    /\ pc = "input"
    /\ filter = Unit
    /\ result = NoOutcome
    /\ response = ResponseNew(0)
    /\ written = <<>>
    /\ conns = <<>>
    /\ queue = <<>>
    /\ workers = <<>>
    /\ lock = 0
    /\ listener = "none"

\* router.handle(&request); a panic of the invoked handler unwinds.
Dispatch ==
    /\ pc = "request"
    /\ LET r == RouterHandle(router, request)
       IN  /\ response' = IF IsPanic(r) THEN response ELSE r
           /\ pc' = IF IsPanic(r) THEN "panicked" ELSE "routed"
    /\ result' = [result EXCEPT !.funcs = RouterInvoked(router, request)]
    /\ UNCHANGED <<filter, request, input, written, serverVars>>

NextRouter == BuildRequest \/ ParseRequest \/ Dispatch

SpecRouter == InitRouter /\ [][NextRouter]_vars

(***************************************************************************)
(* Properties of the routing core.                                         *)
(***************************************************************************)
Ran == pc \in {"filtered", "handled"}
Calls == result.calls
CallIdx == 1..Len(Calls)
Segments == request.path_segments

\* The context a logged call was entered with.
CtxAt(i) == [request |-> request, path_index |-> Calls[i].at]
CallsOf(type) == {i \in CallIdx : Calls[i].node.type = type}

\* s is a prefix of t / the segments that follow cursor `at`
IsPrefix(s, t) == Len(s) <= Len(t) /\ SubSeq(t, 1, Len(s)) = s
SegmentsFrom(at) == SubSeq(Segments, at + 1, Len(Segments))

\* C1 (cursor safety): every call of filter() that returns no-match leaves
\* the cursor at the value it had when the call began.
C1_CursorSafety ==
    Ran => \A i \in CallIdx : ~Calls[i].res.some => Calls[i].out = Calls[i].at

\* C2 (handler adapter policy): handle() returns the converted extract iff
\* the filter matched and the context is exhausted; otherwise it returns 404.
C2_HandlerPolicy ==
    pc = "handled" =>
        IF result.res.some /\ IsPathMatched(result.ctx)
        THEN response = IntoResponse(result.res.v)
        ELSE response = ResponseNotFound

C2_Witness ==
    /\ pc = "handled"
    /\ result.res.some
    /\ result.ctx.path_index < NumSegments(request)
    /\ response = ResponseNotFound

\* C3 (scenario 1): get("/hello") mapped to a 200 response answers GET /hello
\* with the mapped response, GET /world with 404 and POST /hello with 404.
C3_GetHello ==
    (pc = "handled" /\ filter = Map(Get(Lit_hello), "ok")) =>
        /\ (request.method = "Get" /\ Segments = <<Str_hello>>)
                => response = ResponseOk(<<"ok", <<>>>>)
        /\ (request.method = "Get" /\ Segments = <<Str_world>>)
                => response = ResponseNotFound
        /\ (request.method = "Post" /\ Segments = <<Str_hello>>)
                => response = ResponseNotFound

\* C4 (Path): a call of Path(literal) matches iff the non-empty pieces of
\* the literal equal the request segments at the cursor, and a match
\* advances the cursor by the number of those pieces.
C4_PathLiteral ==
    Ran => \A i \in CallsOf("Path") :
        LET want == NonEmpty(Split(Calls[i].node.path))
        IN  /\ Calls[i].res.some <=> IsPrefix(want, SegmentsFrom(Calls[i].at))
            /\ Calls[i].res.some => Calls[i].out = Calls[i].at + Len(want)

\* C5 (Or-left-priority): when both branches of an Or would match from the
\* Or's entry cursor, the Or returns Either::A with A's extract and the
\* cursor A left.
C5_OrLeftPriority ==
    Ran => \A i \in CallsOf("Or") :
        LET a == Filter(Calls[i].node.a, CtxAt(i))
            b == Filter(Calls[i].node.b, CtxAt(i))
        IN  (a.res.some /\ b.res.some) =>
                /\ Calls[i].res.some
                /\ Calls[i].res.v.either = "A"
                /\ Calls[i].res.v.v = a.res.v
                /\ Calls[i].out = a.ctx.path_index

C5_Witness ==
    Ran /\ \E i \in CallsOf("Or") :
        LET a == Filter(Calls[i].node.a, CtxAt(i))
            b == Filter(Calls[i].node.b, CtxAt(i))
        IN  /\ a.res.some /\ b.res.some
            /\ b.ctx.path_index > a.ctx.path_index
            /\ Calls[i].out = a.ctx.path_index

\* C6 (Maybe-optionality): a Maybe matches iff A matches; its optional slot
\* is Some(v) iff B matches from the cursor A left, and then the cursor is
\* the one B left; otherwise the slot is None and the cursor is A's.
C6_MaybeOptional ==
    Ran => \A i \in CallsOf("Maybe") :
        LET a == Filter(Calls[i].node.filter, CtxAt(i))
            b == Filter(Calls[i].node.other, a.ctx)
            slot == Calls[i].res.v[Len(Calls[i].res.v)]
        IN  /\ Calls[i].res.some <=> a.res.some
            /\ (a.res.some /\ b.res.some) =>
                    /\ slot.some /\ slot.v = b.res.v[1]
                    /\ Calls[i].out = b.ctx.path_index
            /\ (a.res.some /\ ~b.res.some) =>
                    /\ ~slot.some
                    /\ Calls[i].out = a.ctx.path_index

C6_Witness ==
    Ran /\ \E i \in CallsOf("Maybe") :
        LET a == Filter(Calls[i].node.filter, CtxAt(i))
            b == Filter(Calls[i].node.other, a.ctx)
        IN  /\ a.res.some /\ ~b.res.some
            /\ b.ctx.path_index # a.ctx.path_index
            /\ a.ctx.path_index > Calls[i].at
            /\ Calls[i].out = a.ctx.path_index

\* C7 (And backtracks over A): when A matches and B then fails, the And
\* returns no-match with the cursor at its value before A ran.
C7_AndBacktracks ==
    Ran => \A i \in CallsOf("And") :
        LET a == Filter(Calls[i].node.a, CtxAt(i))
            b == Filter(Calls[i].node.b, a.ctx)
        IN  (a.res.some /\ ~b.res.some) =>
                ~Calls[i].res.some /\ Calls[i].out = Calls[i].at

\* C8 (Or branch isolation): when A fails, B is run from the cursor the Or
\* was entered with; path("api/a/b").or(path("api/a")) answers /api/a with
\* the B variant and /api/a/b with the A variant, exhausted in both cases.
C8_OrBranchIsolation ==
    Ran =>
        /\ \A i \in CallsOf("Or") :
                (~Calls[i].res.some \/ Calls[i].res.v.either = "B") =>
                    /\ Calls[i - 1].node = Calls[i].node.b
                    /\ Calls[i - 1].at = Calls[i].at
        /\ filter = Or(Path(Lit_api_a_b), Path(Lit_api_a)) =>
                /\ Segments = <<Str_api, <<"a">>>> =>
                        /\ result.res = Some(EitherB(<<>>))
                        /\ IsPathMatched(result.ctx)
                /\ Segments = <<Str_api, <<"a">>, <<"b">>>> =>
                        /\ result.res = Some(EitherA(<<>>))
                        /\ IsPathMatched(result.ctx)

C8_Witness ==
    Ran /\ \E i \in CallsOf("Or") :
        LET a == Filter(Calls[i].node.a, CtxAt(i))
        IN  /\ ~a.res.some
            /\ a.ctx.path_index > Calls[i].at + 1
            /\ Calls[i].res.some
            /\ Calls[i - 1].at = Calls[i].at
            /\ Calls[i].out > Calls[i].at

\* C9 (End at branch tips): in Or(Path(p).and(End), Path(q).and(End)) where
\* the segments of one literal are a proper prefix of the other's, a request
\* for p yields the branch that holds p and a request for q the branch that
\* holds q, with the context exhausted, in either order of the branches.
IsTip(f) ==
    /\ f.type = "And"
    /\ f.a.type = "Path"
    /\ f.b.type = "End"
IsTipOr(f) == f.type = "Or" /\ IsTip(f.a) /\ IsTip(f.b)
ProperPrefix(s, t) == IsPrefix(s, t) /\ Len(s) < Len(t)

C9_EndAtTips ==
    (Ran /\ IsTipOr(filter)) =>
        LET sa == NonEmpty(Split(filter.a.a.path))
            sb == NonEmpty(Split(filter.b.a.path))
        IN  (ProperPrefix(sa, sb) \/ ProperPrefix(sb, sa)) =>
                /\ Segments = sa =>
                        /\ result.res = Some(EitherA(<<>>))
                        /\ IsPathMatched(result.ctx)
                /\ Segments = sb =>
                        /\ result.res = Some(EitherB(<<>>))
                        /\ IsPathMatched(result.ctx)

\* C10 (tail ambiguity): path("a").or(path("a/b")) with no End matches /a/b
\* on branch A leaving "b" unconsumed, never tries branch B, and the handler
\* adapter answers 404.
NeverTried(lit) ==
    \A i \in CallsOf("Path") : Calls[i].node.path # lit

C10_TailAmbiguity ==
    Segments = <<<<"a">>, <<"b">>>> =>
        /\ (pc = "filtered" /\ filter = Or(Path(<<"a">>), Path(Lit_a_b))) =>
                /\ result.res = Some(EitherA(<<>>))
                /\ result.ctx.path_index = 1
                /\ NeverTried(Lit_a_b)
        /\ (pc = "handled"
              /\ filter = Or(Map(Path(<<"a">>), "ok"), Map(Path(Lit_a_b), "created"))) =>
                /\ result.res.some
                /\ result.res.v.either = "A"
                /\ result.ctx.path_index = 1
                /\ NeverTried(Lit_a_b)
                /\ response = ResponseNotFound

C10_Witness ==
    /\ pc = "handled"
    /\ filter = Or(Map(Path(<<"a">>), "ok"), Map(Path(Lit_a_b), "created"))
    /\ Segments = <<<<"a">>, <<"b">>>>
    /\ result.funcs = <<[func |-> "ok", arg |-> <<>>]>>
    /\ response = ResponseNotFound

\* C11 (PathParam): with a segment at the cursor PathParam matches, extracts
\* that segment and advances the cursor by 1; on an exhausted context it is
\* a no-match that leaves the cursor unchanged; get("/users").and(param)
\* extracts ("alice",) for /users/alice and gives 404 for /users and for
\* /users/alice/x.
C11_PathParam ==
    /\ Ran => \A i \in CallsOf("PathParam") :
            IF Calls[i].at < NumSegments(request)
            THEN /\ Calls[i].res = Some(<<Segments[Calls[i].at + 1]>>)
                 /\ Calls[i].out = Calls[i].at + 1
            ELSE /\ ~Calls[i].res.some
                 /\ Calls[i].out = Calls[i].at
    /\ (pc = "filtered" /\ filter = And(Get(Lit_users), PathParam)
          /\ request.method = "Get" /\ Segments = <<Str_users, Str_alice>>)
            => result.res = Some(<<Str_alice>>)
    /\ (pc = "handled" /\ filter = Map(And(Get(Lit_users), PathParam), "ok")
          /\ Segments \in {<<Str_users>>, <<Str_users, Str_alice, <<"x">>>>})
            => response = ResponseNotFound

(***************************************************************************)
(* Properties of the request view.                                         *)
(***************************************************************************)
\* The <<name, value>> headers and the raw path the view was built from.
Carried ==
    IF input.kind = "new"
    THEN {<<k, input.headers[k]>> : k \in DOMAIN input.headers}
    ELSE {input.fields[i] : i \in 1..Len(input.fields)}
RawPath == IF input.kind = "new" THEN input.path ELSE input.words[2]

\* C12 (Header): Header(name) matches iff the request was built with a
\* header whose name equals `name` ignoring letter case, and it extracts the
\* value of such a header.
C12_HeaderIgnoresCase ==
    (pc = "filtered" /\ filter.type = "Header") =>
        LET same == {h \in Carried : ToLowercase(h[1]) = ToLowercase(filter.name)}
        IN  /\ result.res.some <=> same # {}
            /\ result.res.some => \E h \in same : result.res.v = <<h[2]>>

C12_Witness ==
    /\ pc = "filtered"
    /\ input.kind = "new"
    /\ filter = Header(<<"k">>)
    /\ DOMAIN input.headers = {<<"K">>}
    /\ result.res = Some(<<input.headers[<<"K">>]>>)

\* C13 (path-segment normalisation): a view built by Request::new or by
\* Request::parse holds exactly the non-empty pieces of its path: no empty
\* segment, none for "/", none from leading, trailing or doubled slashes.
C13_SegmentsNormalised ==
    pc \in {"request", "filtered"} =>
        /\ \A i \in 1..Len(Segments) : Segments[i] # <<>>
        /\ Segments = NonEmpty(Split(RawPath))

\* C15 (And-associativity of extract): for three filters X, Y, Z that each
\* extract a one-element tuple, (X and Y) and Z and X and (Y and Z) are both
\* defined and yield the same flat 3-tuple whenever all three match.
IsOneTuplePrim(f) == f.type \in {"PathParam", "Header"}

C15_AndAssociative ==
    (Ran /\ filter.type = "And" /\ filter.a.type = "And"
         /\ IsOneTuplePrim(filter.a.a) /\ IsOneTuplePrim(filter.a.b)
         /\ IsOneTuplePrim(filter.b)) =>
        LET right == And(filter.a.a, And(filter.a.b, filter.b))
            r == Filter(right, ContextNew(request))
        IN  /\ WellTyped(filter)
            /\ WellTyped(right)
            /\ result.res.some =>
                    /\ r.res.some
                    /\ Len(result.res.v) = 3
                    /\ r.res.v = result.res.v

\* C16 (Either routing): on a fully consumed match of Or(A, B) the handler
\* adapter returns the conversion of A's extract when A matched, and of B's
\* extract when A failed and B matched.
C16_EitherRouting ==
    (pc = "handled" /\ filter.type = "Or"
        /\ result.res.some /\ IsPathMatched(result.ctx)) =>
        LET a == Filter(filter.a, ContextNew(request))
            b == Filter(filter.b, ContextNew(request))
        IN  IF a.res.some THEN response = IntoResponse(a.res.v)
            ELSE b.res.some /\ response = IntoResponse(b.res.v)

C16_Witness ==
    /\ pc = "handled"
    /\ filter.type = "Or"
    /\ ~Filter(filter.a, ContextNew(request)).res.some
    /\ result.res.some
    /\ IsPathMatched(result.ctx)
    /\ response.status_code = 201

\* C19 (And sequencing): every And call matches exactly when A matches at
\* the entry cursor and B matches at the cursor A left; when A fails B is
\* not run; on joint success the cursor is the one B left and the extract
\* is A's values followed by B's values.
C19_AndSequencing ==
    Ran => \A i \in CallsOf("And") :
        LET node == Calls[i].node
            a == Filter(node.a, CtxAt(i))
            b == Filter(node.b, a.ctx)
        IN  /\ Calls[i].res.some <=> (a.res.some /\ b.res.some)
            /\ ~a.res.some =>
                    Len(Filter(node, CtxAt(i)).calls) = Len(a.calls) + 1
            /\ Calls[i].res.some =>
                    /\ Calls[i].out = b.ctx.path_index
                    /\ Calls[i].res.v =
                            IF b.res.v = <<>> THEN a.res.v
                            ELSE a.res.v \o b.res.v

C19_Witness ==
    /\ Ran
    /\ \E i \in CallsOf("And") :
        LET node == Calls[i].node
            a == Filter(node.a, CtxAt(i))
            b == Filter(node.b, a.ctx)
        IN  /\ node.a.type = "Header" /\ node.b.type = "PathParam"
            /\ Calls[i].res.some
            /\ a.res.v # b.res.v
            /\ Calls[i].out > a.ctx.path_index

\* C20 (Or failure frame): whenever both branches of an Or call fail, the
\* call returns no-match and leaves the cursor where it was on entry,
\* whatever the branches consumed.
C20_OrFailureFrame ==
    Ran => \A i \in CallsOf("Or") :
        LET a == Filter(Calls[i].node.a, CtxAt(i))
            b == Filter(Calls[i].node.b, CtxAt(i))
        IN  (~a.res.some /\ ~b.res.some) =>
                ~Calls[i].res.some /\ Calls[i].out = Calls[i].at

C20_Witness ==
    /\ Ran
    /\ \E i \in CallsOf("Or") :
        LET a == Filter(Calls[i].node.a, CtxAt(i))
            b == Filter(Calls[i].node.b, CtxAt(i))
        IN  /\ ~a.res.some /\ ~b.res.some
            /\ a.ctx.path_index > Calls[i].at
            /\ b.ctx.path_index > Calls[i].at

\* C21 (zero-consumption primitives): every call of Method, Header, End or
\* the unit filter returns with the cursor it was entered with; Method
\* matches exactly when the request method is the configured one and End
\* exactly when the cursor equals the number of path segments.
C21_ZeroConsumption ==
    Ran => \A i \in CallIdx :
        LET c == Calls[i]
        IN  /\ c.node.type \in {"Method", "Header", "End", "Unit"} =>
                    c.out = c.at
            /\ c.node.type = "Method" =>
                    (c.res.some <=> request.method = c.node.method)
            /\ c.node.type = "End" =>
                    (c.res.some <=> c.at = Len(Segments))
            /\ c.node.type = "Unit" => c.res.some

C21_Witness ==
    /\ Ran
    /\ \E i \in CallsOf("Method") :
            Calls[i].at > 0 /\ ~Calls[i].res.some /\ Calls[i].out = Calls[i].at

\* C22 (Map transparency): every Map call matches exactly when A matches,
\* returns with the cursor A left, yields the function applied to A's
\* extract, and invokes the function once when A matches and not at all
\* when A fails.
C22_MapTransparent ==
    Ran => \A i \in CallsOf("Map") :
        LET node == Calls[i].node
            a == Filter(node.filter, CtxAt(i))
            whole == Filter(node, CtxAt(i))
        IN  /\ Calls[i].res.some <=> a.res.some
            /\ Calls[i].out = a.ctx.path_index
            /\ a.res.some => Calls[i].res.v = ApplyFunc(node.func, a.res.v)
            /\ Len(whole.funcs) =
                    Len(a.funcs) + (IF a.res.some THEN 1 ELSE 0)

C22_Witness ==
    /\ Ran
    /\ \E i, j \in CallsOf("Map") :
        /\ Calls[i].res.some /\ Calls[i].out > Calls[i].at
        /\ ~Calls[j].res.some /\ Calls[j].out > Calls[j].at

\* The reference matcher: every filter restores the cursor when it fails,
\* Or tries A then B from the entry cursor, Maybe descends into B from A's
\* cursor when B matches there.
RECURSIVE Leftmost(_, _)
Leftmost(f, ctx) ==
    LET fail == [res |-> None, ctx |-> ctx]
        prim(o) == IF o.res.some THEN [res |-> o.res, ctx |-> o.ctx] ELSE fail
    IN  CASE f.type = "End" -> prim(FilterEnd(f, ctx))
          [] f.type = "Path" -> prim(FilterPath(f, ctx))
          [] f.type = "Unit" -> prim(FilterUnit(f, ctx))
          [] f.type = "PathParam" -> prim(FilterPathParam(f, ctx))
          [] f.type = "Header" -> prim(FilterHeader(f, ctx))
          [] f.type = "Method" -> prim(FilterMethod(f, ctx))
          [] f.type = "And" ->
                LET a == Leftmost(f.a, ctx)
                IN  IF ~a.res.some THEN fail
                    ELSE LET b == Leftmost(f.b, a.ctx)
                         IN  IF ~b.res.some THEN fail
                             ELSE [res |-> Some(Combine(a.res.v, b.res.v)),
                                   ctx |-> b.ctx]
          [] f.type = "Or" ->
                LET a == Leftmost(f.a, ctx)
                IN  IF a.res.some
                    THEN [res |-> Some(EitherA(a.res.v)), ctx |-> a.ctx]
                    ELSE LET b == Leftmost(f.b, ctx)
                         IN  IF b.res.some
                             THEN [res |-> Some(EitherB(b.res.v)), ctx |-> b.ctx]
                             ELSE fail
          [] f.type = "Maybe" ->
                LET a == Leftmost(f.filter, ctx)
                IN  IF ~a.res.some THEN fail
                    ELSE LET b == Leftmost(f.other, a.ctx)
                             opt == IF b.res.some
                                    THEN Some(OneTupleExtract(b.res.v))
                                    ELSE None
                         IN  [res |-> Some(Combine(a.res.v, <<opt>>)),
                              ctx |-> b.ctx]
          [] f.type = "Map" ->
                LET a == Leftmost(f.filter, ctx)
                IN  IF ~a.res.some THEN fail
                    ELSE [res |-> Some(ApplyFunc(f.func, a.res.v)),
                          ctx |-> a.ctx]

\* C23 (leftmost-match equivalence): every call of filter() agrees with the
\* reference matcher run on the same tree from the same cursor on
\* match/no-match, on the extract, and on the cursor after a match.
C23_LeftmostEquivalence ==
    Ran => \A i \in CallIdx :
        LET r == Leftmost(Calls[i].node, CtxAt(i))
        IN  /\ Calls[i].res = r.res
            /\ Calls[i].res.some => Calls[i].out = r.ctx.path_index

C23_Witness ==
    /\ Ran
    /\ \E i \in CallsOf("Or") :
        LET a == Filter(Calls[i].node.a, CtxAt(i))
        IN  /\ ~a.res.some /\ a.ctx.path_index > Calls[i].at
            /\ Calls[i].res.some /\ Calls[i].out > Calls[i].at
            /\ Leftmost(Calls[i].node.a, CtxAt(i)).ctx.path_index = Calls[i].at

\* C24 (cursor validity): on entry to and return from every call of
\* filter() the cursor lies between 0 and the number of path segments, and
\* a call never returns with a cursor before the one it was entered with.
C24_CursorValid ==
    Ran => \A i \in CallIdx :
        /\ 0 <= Calls[i].at /\ Calls[i].at <= Len(Segments)
        /\ Calls[i].at <= Calls[i].out
        /\ Calls[i].out <= Len(Segments)

\* C25 (handlers run only for answered requests): whenever handle() answers
\* with the 404 fallback, no map function was invoked during the match.
C25_NoHandlerOn404 ==
    (pc = "handled" /\ response = ResponseNotFound) => result.funcs = <<>>

(***************************************************************************)
(* Properties of response serialisation.                                   *)
(***************************************************************************)
ContentLengthLines ==
    {i \in 1..Len(written) :
        /\ written[i].w = "header"
        /\ ToLowercase(written[i].key) = <<"content-length">>}
UserContentLength ==
    {k \in DOMAIN response.headers : ToLowercase(k) = <<"content-length">>}

\* C17 (Content-Length): a serialized response carries exactly one
\* Content-Length line: the user's value when the user supplied the header
\* under any letter case, else the body's length, else 0.
C17_OneContentLength ==
    pc = "written" =>
        /\ Cardinality(ContentLengthLines) = 1
        /\ \A i \in ContentLengthLines :
                IF UserContentLength # {}
                THEN \E k \in UserContentLength : written[i].value = response.headers[k]
                ELSE IF response.body.some
                     THEN written[i].value = FormatUsize(Len(response.body.v))
                     ELSE written[i].value = <<"0">>

\* C18 (no partial response): whatever fails, the bytes delivered are one
\* complete serialized response or nothing at all.
C18_NoPartialResponse ==
    pc \in {"written", "write_error"} =>
        \/ written = <<>>
        \/ \E order \in Orders(DOMAIN response.headers) :
                written = Writes(response, order)

(***************************************************************************)
(* Properties of the server loop and the worker pool.                      *)
(***************************************************************************)
Serving == pc = "serving"
ConnIdx == 1..Len(conns)
Names(c) == conns[c].log
Has(c, ev) == \E i \in DOMAIN conns[c].log : conns[c].log[i] = ev
Accepted(c) == conns[c].input.kind = "stream"

C27_WorkersSurvive ==
    Serving => Cardinality({w \in Workers : Alive(w)}) = ThreadCount

\* The orders in which a connection's events may occur.
Protocols ==
    {<<"accept_error">>,
     <<"queued", "dequeued", "parse_error">>,
     <<"queued", "dequeued", "parsed", "panicked">>,
     <<"queued", "dequeued", "parsed", "handled", "written">>,
     <<"queued", "dequeued", "parsed", "handled", "write_error">>}

\* C28 (per-connection protocol): every accepted connection is handed to
\* the pool as one job; its events occur in the order parse, handle,
\* write; bytes are written only by the one write that follows a
\* successful parse and a returned handler; and the accept loop keeps
\* running.
C28_ConnectionProtocol ==
    Serving =>
        /\ listener = "listening"
        /\ \A c \in ConnIdx :
            /\ Accepted(c) => Has(c, "queued")
            /\ \E p \in Protocols : IsPrefix(Names(c), p)
            /\ conns[c].written # <<>> =>
                    /\ Has(c, "parsed") /\ Has(c, "handled")
                    /\ Has(c, "written") \/ Has(c, "write_error")
                    /\ \E order \in Orders({}) :
                            IsPrefix(conns[c].written,
                                Writes(RouterHandle(router,
                                    RequestParse(conns[c].input).request), order))

Finished(c) ==
    \/ Has(c, "parse_error") \/ Has(c, "panicked")
    \/ Has(c, "written") \/ Has(c, "write_error")
Running(c) == Has(c, "dequeued") /\ ~Finished(c)

\* C29 (fixed-size parallel pool): at most thread_count jobs are being
\* executed; the receiver lock is held exactly by a worker waiting in
\* recv, never by one executing a job, so whenever a job is queued and a
\* worker is not executing, some worker can take a step towards it.
C29_FixedSizePool ==
    Serving =>
        /\ Cardinality({c \in ConnIdx : Running(c)}) <= ThreadCount
        /\ Cardinality({c \in ConnIdx : Running(c)})
                = Cardinality({w \in Workers : Executing(w)})
        /\ \A w \in Workers : lock = w <=> workers[w].state = "waiting"
        /\ (queue # <<>> /\ \E w \in Workers : Alive(w) /\ ~Executing(w)) =>
                \E w \in Workers :
                    \/ workers[w].state = "idle" /\ lock = 0
                    \/ workers[w].state = "waiting" /\ lock = w

C29_Witness ==
    /\ Serving
    /\ \E v, w \in Workers :
        /\ workers[v].state = "handle"
        /\ workers[w].state = "waiting" /\ lock = w
        /\ queue # <<>>

\* The outcome of connection c's request when it is handled on its own.
Alone(c) == RouterHandle(router, RequestParse(conns[c].input).request)

\* C30 (request isolation): under every interleaving of the workers, each
\* connection's handler sees the request parsed from that connection and
\* its outcome and written bytes are those of the same request handled
\* alone.
C30_RequestIsolation ==
    Serving =>
        /\ \A w \in Workers :
            /\ workers[w].state \in {"handle", "write"} =>
                    workers[w].request =
                        RequestParse(conns[workers[w].conn].input).request
            /\ workers[w].state = "write" =>
                    workers[w].response = Alone(workers[w].conn)
        /\ \A c \in ConnIdx :
            /\ Has(c, "handled") => ~IsPanic(Alone(c))
            /\ Has(c, "panicked") => IsPanic(Alone(c))
            /\ Has(c, "written") =>
                    \E order \in Orders(DOMAIN Alone(c).headers) :
                        conns[c].written = Writes(Alone(c), order)

C30_Witness ==
    /\ Serving
    /\ \E v, w \in Workers :
        /\ workers[v].state = "handle" /\ workers[w].state = "write"
        /\ workers[v].request # workers[w].request
        /\ ~IsPanic(Alone(workers[v].conn))
        /\ Alone(workers[v].conn) # workers[w].response
    /\ \E c \in ConnIdx : Has(c, "written")

(***************************************************************************)
(* Properties of the ThreadPool on its own.                                *)
(***************************************************************************)
Pooled == pc = "pool"
DropBegun == listener \notin {"listening", "crashed"}
SomePanic == \E c \in ConnIdx : Has(c, "panicked")
AllExited == \A w \in DOMAIN workers : workers[w].state = "exited"
JobRan(c) == Has(c, "returned") \/ Has(c, "panicked")
AllRun == \A c \in ConnIdx : Has(c, "queued") => Has(c, "dequeued") /\ JobRan(c)

Count(c, ev) == Cardinality({i \in DOMAIN conns[c].log : conns[c].log[i] = ev})
InQueue(c) == Cardinality({i \in DOMAIN queue : queue[i] = c})
Holders(c) ==
    {w \in DOMAIN workers : workers[w].state = "parse" /\ workers[w].conn = c}
NoWorker == \A w \in DOMAIN workers : Gone(w)
Sent(c) == IF c \in ConnIdx THEN Has(c, "queued") ELSE FALSE
HasRun(c) == IF c \in ConnIdx THEN JobRan(c) ELSE FALSE

\* C31 (exactly-once execution): under every interleaving of execute calls
\* and workers, a job that execute has sent is at every moment either once
\* in the channel, or dequeued once and held by exactly one worker until it
\* has run once; it is never dequeued or run twice, and it is thrown away
\* only when no worker thread is left.  While a worker is left, every such
\* job is eventually run.
C31_ExactlyOnce ==
    /\ [](Pooled => \A c \in ConnIdx : Has(c, "queued") =>
            /\ Count(c, "dequeued") <= 1
            /\ Count(c, "returned") + Count(c, "panicked") <= 1
            /\ InQueue(c) + Count(c, "dequeued") + Count(c, "dropped") = 1
            /\ Cardinality(Holders(c)) =
                    IF Has(c, "dequeued") /\ ~JobRan(c) THEN 1 ELSE 0
            /\ JobRan(c) => Has(c, "dequeued")
            /\ Has(c, "dropped") => NoWorker)
    /\ \A c \in 1..MaxJobs :
            (Pooled /\ Sent(c)) ~> (HasRun(c) \/ NoWorker)

\* Two jobs are running on two workers at once, after a third has returned.
C31_Witness ==
    /\ Pooled
    /\ \E c, d, e \in ConnIdx :
        /\ c # d
        /\ Holders(c) # {} /\ Holders(d) # {} /\ Holders(c) # Holders(d)
        /\ Has(e, "returned") /\ Count(e, "dequeued") = 1

\* C32 (shutdown): once the pool is being dropped, the drop eventually
\* returns unless a submitted job panics, and whenever it has returned every
\* job submitted before it has been run to its end, the queue is empty and
\* every worker has left its loop.
C32_Shutdown ==
    /\ [](Pooled /\ listener = "dropped" => AllExited /\ AllRun /\ queue = <<>>)
    /\ (Pooled /\ DropBegun) ~> (listener = "dropped" \/ SomePanic)

C32_Witness ==
    /\ Pooled /\ listener = "dropped"
    /\ Cardinality(DOMAIN workers) = ThreadCount
    /\ Len(conns) = MaxJobs
    /\ AllRun /\ AllExited

\* C33 (a pool needs a live receiver): an execute call queues its job only
\* while some worker thread is left and otherwise fails in the caller
\* without queueing it; in a pool of no workers, or of workers that have all
\* died, every execute fails; and no job is ever left in a channel that no
\* worker will read.
C33_LiveReceiver ==
    /\ [](Pooled =>
            /\ queue # <<>> => ~NoWorker
            /\ listener = "crashed" => NoWorker
            /\ \A c \in ConnIdx : conns[c].log = <<>> => listener = "crashed"
            /\ workers = <<>> => \A c \in ConnIdx : conns[c].log = <<>>)
    /\ [][Pooled /\ Len(conns') > Len(conns) =>
            LET job == conns'[Len(conns')]
            IN  IF NoWorker
                THEN job.log = <<>> /\ queue' = queue /\ listener' = "crashed"
                ELSE job.log = <<"queued">>
                     /\ queue' = Append(queue, Len(conns'))]_vars

\* Every worker of a full pool has died, and the next execute has failed.
C33_Witness ==
    /\ Pooled /\ listener = "crashed"
    /\ Cardinality(DOMAIN workers) = ThreadCount
    /\ \A w \in DOMAIN workers : workers[w].state = "dead"
    /\ conns[Len(conns)].log = <<>>

(***************************************************************************)
(* Properties of the Router.                                               *)
(***************************************************************************)
Dispatched == pc \in {"routed", "panicked"}

\* The entries of a router in registration order, nested routers expanded
\* in place, each with its full path.
RECURSIVE Entries(_, _)
Entries(routes, prefix) ==
    IF routes = <<>> THEN <<>>
    ELSE LET entry == Head(routes)
             first == IF entry.type = "Route"
                      THEN <<[path |-> prefix \o entry.path,
                              method |-> entry.method,
                              handler |-> entry.handler]>>
                      ELSE Entries(entry.routes, prefix \o entry.prefix)
         IN  first \o Entries(Tail(routes), prefix)
Matching ==
    LET entries == Entries(router.routes, router.prefix)
    IN  {i \in DOMAIN entries :
            /\ entries[i].method = request.method
            /\ entries[i].path = RequestPath(request)}
FirstMatching ==
    Entries(router.routes, router.prefix)
        [CHOOSE i \in Matching : \A j \in Matching : i <= j]

\* C34 (first-match dispatch): Router::handle invokes exactly one handler,
\* that of the first entry in registration order, nested routers expanded
\* depth-first, whose method is the request's and whose full path is the
\* request path, and returns its response; with no such entry it invokes
\* no handler and returns 404.
C34_FirstMatch ==
    Dispatched =>
        IF Matching = {}
        THEN pc = "routed" /\ response = ResponseNotFound /\ result.funcs = <<>>
        ELSE /\ result.funcs = <<FirstMatching.handler>>
             /\ IF FirstMatching.handler.kind = "panic" THEN pc = "panicked"
                ELSE /\ pc = "routed"
                     /\ response = HandlerHandle(FirstMatching.handler, request)

\* Two entries match, the first of them inside a nested router.
C34_Witness ==
    /\ pc = "routed"
    /\ Cardinality(Matching) >= 2
    /\ \A i \in Matching : i > 1
    /\ response = ResponseOk(<<"2">>)

\* The path and the method a request view was built from.
InputPath == IF input.kind = "new" THEN input.path ELSE input.words[2]
InputIsGet ==
    IF input.kind = "new" THEN input.method = "Get"
    ELSE input.words[1] = MethodWords.GET
MainAnswer(path) ==
    CASE path = <<"/">> ->
            ResponseHtml(<<"<h1>Welcome to RustServe!</h1>">>)
      [] path = Path_api \o Path_v1 \o Path_users ->
            ResponseOk(<<"List of users from v1">>)
      [] path = Path_api \o Path_v2 \o Path_users ->
            ResponseOk(<<"List of users from v2">>)
      [] path = Path_api \o Path_v2 \o Path_posts -> ResponseNotFound
MainPaths ==
    {<<"/">>, Path_api \o Path_v1 \o Path_users,
     Path_api \o Path_v2 \o Path_users, Path_api \o Path_v2 \o Path_posts}

\* C35 (nesting as in main): main's router answers a GET for /api/v1/users
\* with v1's users handler, for /api/v2/users with v2's, for / with the root
\* handler and for /api/v2/posts with 404, whether the request view was
\* built from the path by Request::new or by Request::parse.
C35_MainNesting ==
    Dispatched /\ router = MainRouter /\ InputIsGet /\ InputPath \in MainPaths
        => pc = "routed" /\ response = MainAnswer(InputPath)

====
